---- MODULE Spec2Model ----
(***************************************************************************)
(* Audio notes application (src/app.py): a Streamlit script that records   *)
(* audio, transcribes it, lets the user edit the text and stores it in a   *)
(* Qdrant collection, and lists / searches the stored notes.               *)
(*                                                                         *)
(* A browser session re-executes the script top to bottom on every widget  *)
(* event.  One script run is modelled as a sequence of steps, one step per *)
(* block of the script that contains at most one remote call, so that the  *)
(* runs of two sessions interleave at the remote calls.                    *)
(***************************************************************************)
EXTENDS Integers, Sequences, FiniteSets, TLC

\* ------------------------------------------------------------------ bounds
\* Largest number of points the collection holds before the first run.
MaxInit == 10
\* Largest number of successful add_note_to_db calls in one behaviour.
MaxAdds == 2

\* ------------------------------------------------------- program constants
EMBEDDING_DIM == 3072
QDRANT_COLLECTION_NAME == "notes"
ScrollLimit == 10
SearchLimit == 10

\* ------------------------------------------------------------ value domains
Sessions == {"s1", "s2"}
\* Recordings the audiorecorder component can deliver (exported mp3 bytes).
Audio == {"A", "B"}
\* The empty AudioSegment (falsy in `if note_audio:`).
NoAudio == ""
\* Python's None.
None == "None"
\* Non-empty note / transcript texts.
Texts == {"a", "b"}
\* Values of the search text_input.
Queries == {"", "a", "b"}

\* hashlib.md5(bytes).hexdigest(): a digest per recording, taken to be
\* collision-free on the recordings of the model.
MD5(bytes) == CASE bytes = "A" -> "d41a"
                [] bytes = "B" -> "9f3b"
                [] OTHER -> "0000"

\* Python truthiness of a str / None value.
Truthy(v) == v # "" /\ v # None

\* --------------------------------------------------------- embedding, store
\* get_embedding: the provider's vector for a text.  A vector is abstracted
\* to its dimension and a direction on a small integer scale.
get_embedding(text) ==
    [size |-> EMBEDDING_DIM,
     dir  |-> CASE text = "a" -> 1 [] text = "b" -> 4 [] OTHER -> 2]

\* Cosine similarity of two vectors, on an integer scale (larger = closer).
Similarity(q, v) == LET d == IF q.dir >= v.dir THEN q.dir - v.dir ELSE v.dir - q.dir
                    IN  100 - 10 * d

\* VectorParams(size=EMBEDDING_DIM, distance=Distance.COSINE) of the collection.
NotesSchema == [name |-> QDRANT_COLLECTION_NAME, size |-> EMBEDDING_DIM, distance |-> "Cosine"]
NoSchema == [name |-> None, size |-> 0, distance |-> None]

\* PointStruct(id, vector=get_embedding(text), payload={"text": text}) as stored.
PointStruct(text) == [vector |-> get_embedding(text), payload |-> text]

\* Mutant of NextId: the identifier is the count itself.
NextIdNoIncrement(count) == count

\* Mutant of NextId: identifiers advance by two.
NextIdPlusTwo(count) == count + 2

\* id=points_count.count + 1
NextId(count) == count + 1

\* Mutant of Upsert: the request replaces the content of the collection.
UpsertReplacingAll(pts, id, point) == [i \in {id} |-> point]

\* Mutant of Upsert: a point whose identifier is taken is left as it is.
UpsertKeepingOld(pts, id, point) ==
    [i \in DOMAIN pts \cup {id} |-> IF i \in DOMAIN pts THEN pts[i] ELSE point]

\* qdrant upsert: insert the point, or overwrite the point with the same id.
Upsert(pts, id, point) ==
    [i \in DOMAIN pts \cup {id} |-> IF i = id THEN point ELSE pts[i]]

\* Text of the i-th note a previous use of the application left behind.
InitText(i) == IF i % 2 = 1 THEN "a" ELSE "b"

VARIABLES
    cache,        \* st.cache_resource entry of get_qdrant_client: "unset", "client", None
    collExists,   \* the store has the collection "notes"
    schema,       \* its vector parameters
    points,       \* its points: id -> [vector, payload]
    session,      \* st.session_state per session
    widgets,      \* front-end widget state per session
    run,          \* the script run in progress per session
    ghost,        \* history: which recording each text came from
    addLog,       \* history: the successful add_note_to_db calls, in order
    created,      \* history: number of successful create_collection calls
    initCount     \* history: number of points before the first run

vars == <<cache, collExists, schema, points, session, widgets, run, ghost,
          addLog, created, initCount>>

store == <<collExists, schema, points, created>>

\* Session state initialization, lines 214-224.
InitSession == [note_audio_bytes_md5 |-> None, note_audio_bytes |-> None,
                note_text |-> "", note_audio_text |-> ""]

\* No widget has been rendered yet.
InitWidgets == [recorder |-> NoAudio, areaKey |-> None, areaVal |-> "", shown |-> {}]

\* A session between two script runs.
IdleFrame == [pc |-> "idle", ev |-> "none", arg |-> "", calls |-> <<>>,
              points_count |-> 0, op |-> "none", ret |-> None, result |-> <<>>,
              failed |-> "none", halted |-> FALSE, raised |-> FALSE,
              booted |-> FALSE, rendered |-> {}, capt |-> "none",
              hadText |-> FALSE]

InitGhost == [audioTextSrc |-> None, noteTextSrc |-> None, areaSrc |-> None]

Init ==
    /\ cache = "unset"
    /\ \E n \in 0..MaxInit :
         /\ initCount = n
         /\ collExists \in (IF n = 0 THEN BOOLEAN ELSE {TRUE})
         /\ points = [i \in 1..n |-> PointStruct(InitText(i))]
    /\ schema = IF collExists THEN NotesSchema ELSE NoSchema
    /\ session = [s \in Sessions |-> InitSession]
    /\ widgets = [s \in Sessions |-> InitWidgets]
    /\ run = [s \in Sessions |-> IdleFrame]
    /\ ghost = [s \in Sessions |-> InitGhost]
    /\ addLog = <<>>
    /\ created = 0

\* ------------------------------------------------------------ frame helpers
Pc(s) == run[s].pc

\* The run of s moves to `pc`, having issued the remote calls `calls`.
Goto(s, pc, calls) ==
    [run EXCEPT ![s] = [@ EXCEPT !.pc = pc, !.calls = @ \o calls]]

\* Mutant of Stop: the error is shown and the script goes on.
StopMissing(s, calls, why) ==
    [run EXCEPT ![s] = [@ EXCEPT !.pc = "capture", !.calls = @ \o calls,
                                 !.failed = why]]

\* st.stop(): the run ends here, nothing below is executed.
Stop(s, calls, why) ==
    [run EXCEPT ![s] = [@ EXCEPT !.pc = "done", !.calls = @ \o calls,
                                 !.halted = TRUE, !.failed = why]]

\* A widget event of session s starts a script run.
StartRun(s, ev, arg) ==
    [run EXCEPT ![s] = [IdleFrame EXCEPT !.pc = "boot", !.ev = ev, !.arg = arg]]

\* ------------------------------------------------------------ widget events
\* Page load, or an interaction that changes none of the widgets below.
Rerun(s) ==
    /\ Pc(s) = "idle"
    /\ run' = StartRun(s, "none", "")
    /\ UNCHANGED <<cache, store, session, widgets, ghost, addLog, initCount>>

\* The audiorecorder component delivers a recording (line 238).
Record(s, a) ==
    /\ Pc(s) = "idle"
    /\ "recorder" \in widgets[s].shown
    /\ widgets' = [widgets EXCEPT ![s].recorder = a]
    /\ run' = StartRun(s, "record", a)
    /\ UNCHANGED <<cache, store, session, ghost, addLog, initCount>>

\* Click on "Transkrybuj audio" (line 260).
ClickTranscribe(s) ==
    /\ Pc(s) = "idle"
    /\ "transcribe" \in widgets[s].shown
    /\ run' = StartRun(s, "transcribe", "")
    /\ UNCHANGED <<cache, store, session, widgets, ghost, addLog, initCount>>

\* The user changes the content of the "Edytuj notatke" text area (line 266).
EditText(s, t) ==
    /\ Pc(s) = "idle"
    /\ "area" \in widgets[s].shown
    /\ t # widgets[s].areaVal
    /\ widgets' = [widgets EXCEPT ![s].areaVal = t]
    /\ run' = StartRun(s, "edit", t)
    /\ UNCHANGED <<cache, store, session, ghost, addLog, initCount>>

\* Click on "Zapisz notatke" (line 272).
ClickSave(s) ==
    /\ Pc(s) = "idle"
    /\ "save" \in widgets[s].shown
    /\ Len(addLog) < MaxAdds
    /\ run' = StartRun(s, "save", "")
    /\ UNCHANGED <<cache, store, session, widgets, ghost, addLog, initCount>>

\* Click on "Szukaj" with q in the search box (lines 285-286).
ClickSearch(s, q) ==
    /\ Pc(s) = "idle"
    /\ "search" \in widgets[s].shown
    /\ run' = StartRun(s, "search", q)
    /\ UNCHANGED <<cache, store, session, widgets, ghost, addLog, initCount>>

\* Click on the sidebar button: st.cache_resource.clear(); st.rerun()
\* (lines 196-198).  The rerun is a run without a widget event.
ClearCache(s) ==
    /\ Pc(s) = "idle"
    /\ cache # "unset"
    /\ cache' = "unset"
    /\ run' = StartRun(s, "none", "")
    /\ UNCHANGED <<store, session, widgets, ghost, addLog, initCount>>

\* ---------------------------------------------------------------- bootstrap
\* Mutant of get_qdrant_client: a None result is not kept, the next call
\* connects again.
get_qdrant_client_RetryingNone(cached, ok) ==
    IF cached = "client" THEN cached
    ELSE IF ok THEN "client" ELSE None

\* get_qdrant_client under st.cache_resource (lines 65-89): the cached value
\* if there is one, else a connection attempt whose result, the client or
\* None, is what the cache keeps.
get_qdrant_client(cached, ok) ==
    IF cached # "unset" THEN cached
    ELSE IF ok THEN "client" ELSE None

\* The remote calls get_qdrant_client issues.
ConnectCalls(cached) == IF cached = "unset" THEN <<"get_collections">> ELSE <<>>

\* Mutant of AssureGetClient: with a cached client the collection is not
\* checked again.
AssureGetClientSkippingCheck(s, ok) ==
    /\ Pc(s) = "boot"
    /\ cache' = get_qdrant_client(cache, ok)
    /\ run' = IF cache' = None
              THEN Stop(s, ConnectCalls(cache), "connect")
              ELSE IF cache = "client"
                   THEN Goto(s, "capture", <<>>)
                   ELSE Goto(s, "exists", ConnectCalls(cache))
    /\ UNCHANGED <<store, session, widgets, ghost, addLog, initCount>>

\* assure_db_collection_exists, lines 93-97.
AssureGetClient(s, ok) ==
    /\ Pc(s) = "boot"
    /\ cache' = get_qdrant_client(cache, ok)
    /\ run' = IF cache' = None
              THEN Stop(s, ConnectCalls(cache), "connect")
              ELSE Goto(s, "exists", ConnectCalls(cache))
    /\ UNCHANGED <<store, session, widgets, ghost, addLog, initCount>>

\* Mutant of AssureExists: the collection is created whatever the check says.
AssureExistsAlwaysCreating(s, ok) ==
    /\ Pc(s) = "exists"
    /\ run' = IF ~ok THEN Stop(s, <<"collection_exists">>, "collection_exists")
              ELSE Goto(s, "create", <<"collection_exists">>)
    /\ UNCHANGED <<cache, store, session, widgets, ghost, addLog, initCount>>

\* assure_db_collection_exists, line 100 (and 113-115 when the call fails).
AssureExists(s, ok) ==
    /\ Pc(s) = "exists"
    /\ run' = IF ~ok THEN Stop(s, <<"collection_exists">>, "collection_exists")
              ELSE IF collExists
                   THEN [Goto(s, "capture", <<"collection_exists">>) EXCEPT ![s].booted = TRUE]
                   ELSE Goto(s, "create", <<"collection_exists">>)
    /\ UNCHANGED <<cache, store, session, widgets, ghost, addLog, initCount>>

\* assure_db_collection_exists, lines 101-109 (and 113-115 when the call
\* fails; the store refuses to create a collection that exists).
AssureCreate(s, ok) ==
    /\ Pc(s) = "create"
    /\ IF ok /\ ~collExists
       THEN /\ collExists' = TRUE
            /\ schema' = NotesSchema
            /\ created' = created + 1
            /\ run' = [Goto(s, "capture", <<"create_collection">>) EXCEPT ![s].booted = TRUE]
       ELSE /\ run' = Stop(s, <<"create_collection">>, "create_collection")
            /\ UNCHANGED <<collExists, schema, created>>
    /\ UNCHANGED <<cache, points, session, widgets, ghost, addLog, initCount>>

\* ------------------------------------------------------------ add-note tab
\* The state one session's script run reads and writes.
Mach(s) == [st |-> session[s], w |-> widgets[s], g |-> ghost[s], fr |-> run[s]]

Commit(s, m) ==
    /\ session' = [session EXCEPT ![s] = m.st]
    /\ widgets' = [widgets EXCEPT ![s] = m.w]
    /\ ghost' = [ghost EXCEPT ![s] = m.g]
    /\ run' = [run EXCEPT ![s] = m.fr]

\* st.text_area(label, value): the value the widget holds while it is the
\* widget rendered by the previous run (same label and default), else the
\* default.
text_area(w, value) == IF w.areaKey = value THEN w.areaVal ELSE value

\* Mutant of SaveRendered: the save button is rendered whatever the text.
SaveAlwaysRendered(st) == TRUE

\* Line 272: the save button is rendered, and can have been clicked, only
\* when note_text is non-empty.
SaveRendered(st) == Truthy(st.note_text)

\* Lines 265-272: the text area and the save condition.  The run goes on to
\* add_note_to_db when the rendered save button was clicked, else to the
\* search tab.
EditBlock(m) ==
    LET area == Truthy(m.st.note_audio_text)
        same == m.w.areaKey = m.st.note_audio_text
        text == IF area THEN text_area(m.w, m.st.note_audio_text) ELSE m.st.note_text
        st2  == [m.st EXCEPT !.note_text = text]
        save == SaveRendered(st2)
        call == save /\ m.fr.ev = "save"
        src  == IF same THEN m.g.areaSrc ELSE m.g.audioTextSrc
    IN  [st |-> st2,
         w  |-> IF area THEN [m.w EXCEPT !.areaKey = m.st.note_audio_text,
                                         !.areaVal = text]
                ELSE m.w,
         g  |-> IF area THEN [m.g EXCEPT !.areaSrc = src, !.noteTextSrc = src]
                ELSE m.g,
         fr |-> [m.fr EXCEPT
                   !.pc = IF call THEN "add_client" ELSE "search_tab",
                   !.rendered = @ \cup (IF area THEN {"area"} ELSE {})
                                  \cup (IF save THEN {"save"} ELSE {}),
                   !.arg = IF call THEN text ELSE @,
                   !.op = IF call THEN "add" ELSE @]]

\* Lines 284-286: the search tab.  The run goes on to list_notes_from_db when
\* the search button was clicked, else it ends.
SearchTab(m) ==
    [m EXCEPT !.fr = [@ EXCEPT
        !.pc = IF m.fr.ev = "search" THEN "list_client" ELSE "done",
        !.rendered = @ \cup {"search"},
        !.op = IF m.fr.ev = "search" THEN "list" ELSE @]]

\* The script runs on, without a remote call, from the text area (line 265)
\* or from the search tab (line 284) to its next remote call or to its end.
RunOn(m) ==
    LET m1 == IF m.fr.pc = "edit" THEN EditBlock(m) ELSE m
    IN  IF m1.fr.pc = "search_tab" THEN SearchTab(m1) ELSE m1

\* Mutant of CaptureDraft: the texts are emptied on every capture.
CaptureDraftAlwaysResetting(st, bytes) ==
    [note_audio_bytes |-> bytes, note_audio_text |-> "",
     note_text |-> "", note_audio_bytes_md5 |-> MD5(bytes)]

\* Mutant of CaptureDraft: a new digest is stored and the texts are kept.
CaptureDraftKeepingTexts(st, bytes) ==
    [st EXCEPT !.note_audio_bytes = bytes, !.note_audio_bytes_md5 = MD5(bytes)]

\* Lines 249-255: keep the exported bytes; when their digest differs from the
\* stored one, empty both texts and store the new digest.
CaptureDraft(st, bytes) ==
    LET current_md5 == MD5(bytes)
    IN  IF st.note_audio_bytes_md5 # current_md5
        THEN [note_audio_bytes |-> bytes, note_audio_text |-> "",
              note_text |-> "", note_audio_bytes_md5 |-> current_md5]
        ELSE [st EXCEPT !.note_audio_bytes = bytes]

\* Lines 238-257 and 281-282: the capture block of the add tab; without a
\* recording the run goes on to the search tab.
Capture(s) ==
    LET m   == Mach(s)
        rec == m.w.recorder
        st  == CaptureDraft(m.st, rec)
        reset == m.st.note_audio_bytes_md5 # st.note_audio_bytes_md5
        fr  == [m.fr EXCEPT !.rendered = @ \cup {"recorder"}]
    IN  /\ Pc(s) = "capture"
        /\ IF Truthy(rec)
           THEN Commit(s, [m EXCEPT
                    !.st = st,
                    !.g = IF st.note_audio_text = "" /\ st.note_text = ""
                          THEN [@ EXCEPT !.audioTextSrc = None, !.noteTextSrc = None]
                          ELSE @,
                    !.fr = [fr EXCEPT !.pc = "transcribe",
                                      !.capt = IF reset THEN "reset" ELSE "kept",
                                      !.hadText = Truthy(m.st.note_text)
                                                  \/ Truthy(m.st.note_audio_text)]])
           ELSE Commit(s, RunOn([m EXCEPT !.fr = [fr EXCEPT !.pc = "search_tab"]]))
        /\ UNCHANGED <<cache, store, addLog, initCount>>

\* Mutant of Transcribe: a failed transcription is swallowed, the transcript
\* is emptied and the script goes on to the text area.
TranscribeSwallowing(s, ok, t) ==
    LET m  == Mach(s)
        fr == [m.fr EXCEPT !.rendered = @ \cup {"transcribe"}]
    IN  /\ Pc(s) = "transcribe"
        /\ IF m.fr.ev # "transcribe"
           THEN Commit(s, RunOn([m EXCEPT !.fr = [fr EXCEPT !.pc = "edit"]]))
           ELSE Commit(s, RunOn([m EXCEPT
                    !.st = [@ EXCEPT !.note_audio_text = IF ok THEN t ELSE ""],
                    !.g = [@ EXCEPT !.audioTextSrc = m.st.note_audio_bytes],
                    !.fr = [fr EXCEPT !.pc = "edit",
                                      !.calls = @ \o <<"transcribe">>,
                                      !.failed = IF ok THEN @ ELSE "transcribe"]]))
        /\ UNCHANGED <<cache, store, addLog, initCount>>

\* Lines 260-262: the transcribe button; when it was clicked, transcribe_audio
\* (lines 51-60) returns the provider's text t, or its exception leaves the
\* script.
Transcribe(s, ok, t) ==
    LET m  == Mach(s)
        fr == [m.fr EXCEPT !.rendered = @ \cup {"transcribe"}]
    IN  /\ Pc(s) = "transcribe"
        /\ IF m.fr.ev # "transcribe"
           THEN Commit(s, RunOn([m EXCEPT !.fr = [fr EXCEPT !.pc = "edit"]]))
           ELSE IF ok
           THEN Commit(s, RunOn([m EXCEPT
                    !.st = [@ EXCEPT !.note_audio_text = t],
                    !.g = [@ EXCEPT !.audioTextSrc = m.st.note_audio_bytes],
                    !.fr = [fr EXCEPT !.pc = "edit",
                                      !.calls = @ \o <<"transcribe">>]]))
           ELSE Commit(s, [m EXCEPT
                    !.fr = [fr EXCEPT !.pc = "done",
                                      !.calls = @ \o <<"transcribe">>,
                                      !.raised = TRUE,
                                      !.failed = "transcribe"]])
        /\ UNCHANGED <<cache, store, addLog, initCount>>

\* ------------------------------------------------------------ add_note_to_db
\* Mutant of AddFalse: the exception leaves add_note_to_db and the script.
AddRaising(s, calls, why) ==
    LET m == Mach(s)
    IN  [m EXCEPT !.fr = [@ EXCEPT !.pc = "done", !.calls = @ \o calls,
                                   !.raised = TRUE, !.failed = why]]

\* Mutant of AddFalse: the form is emptied although add_note_to_db returned
\* False.
AddFalseClearingForm(s, calls, why) ==
    LET m == Mach(s)
    IN  RunOn([m EXCEPT !.st = [@ EXCEPT !.note_text = "", !.note_audio_text = "",
                                         !.note_audio_bytes_md5 = None],
                        !.fr = [@ EXCEPT !.pc = "search_tab", !.calls = @ \o calls,
                                         !.ret = "False", !.failed = why]])

\* add_note_to_db returns False (lines 130-132, 151-153); the save block
\* (lines 274-279) then changes nothing and the run goes on to the search tab.
AddFalse(s, calls, why) ==
    LET m == Mach(s)
    IN  RunOn([m EXCEPT !.fr = [@ EXCEPT !.pc = "search_tab", !.calls = @ \o calls,
                                         !.ret = "False", !.failed = why]])

\* Lines 129-132.
AddGetClient(s, ok) ==
    /\ Pc(s) = "add_client"
    /\ cache' = get_qdrant_client(cache, ok)
    /\ IF cache' = None
       THEN Commit(s, AddFalse(s, ConnectCalls(cache), "client_none"))
       ELSE /\ run' = Goto(s, "add_count", ConnectCalls(cache))
            /\ UNCHANGED <<session, widgets, ghost>>
    /\ UNCHANGED <<store, addLog, initCount>>

\* Lines 134-137: the exact count of the collection.
AddCount(s, ok) ==
    /\ Pc(s) = "add_count"
    /\ IF ok
       THEN /\ run' = [Goto(s, "add_embed", <<"count">>)
                         EXCEPT ![s].points_count = Cardinality(DOMAIN points)]
            /\ UNCHANGED <<session, widgets, ghost>>
       ELSE Commit(s, AddFalse(s, <<"count">>, "count"))
    /\ UNCHANGED <<cache, store, addLog, initCount>>

\* Mutant of AddEmbed: a failed embedding is noted and the upsert still made.
AddEmbedSwallowing(s, ok) ==
    /\ Pc(s) = "add_embed"
    /\ run' = [Goto(s, "add_upsert", <<"embed">>)
                 EXCEPT ![s].failed = IF ok THEN @ ELSE "embed"]
    /\ UNCHANGED <<cache, store, session, widgets, ghost, addLog, initCount>>

\* Line 144: the embedding of the note, an argument of the upsert.
AddEmbed(s, ok) ==
    /\ Pc(s) = "add_embed"
    /\ IF ok
       THEN /\ run' = Goto(s, "add_upsert", <<"embed">>)
            /\ UNCHANGED <<session, widgets, ghost>>
       ELSE Commit(s, AddFalse(s, <<"embed">>, "embed"))
    /\ UNCHANGED <<cache, store, addLog, initCount>>

\* Mutant of ClearForm: the stored digest is kept.
ClearFormKeepingDigest(st) == [st EXCEPT !.note_text = "", !.note_audio_text = ""]

\* Lines 277-279: the form is emptied after a successful save.
ClearForm(st) == [st EXCEPT !.note_text = "", !.note_audio_text = "",
                            !.note_audio_bytes_md5 = None]

\* Lines 139-149 and 274-279: the upsert, and the save block's reaction; the
\* run goes on to the search tab.
AddUpsert(s, ok) ==
    LET m  == Mach(s)
        id == NextId(m.fr.points_count)
    IN  /\ Pc(s) = "add_upsert"
        /\ IF ok
           THEN /\ points' = Upsert(points, id, PointStruct(m.fr.arg))
                /\ addLog' = Append(addLog, [id |-> id, text |-> m.fr.arg, by |-> s])
                /\ Commit(s, RunOn([m EXCEPT
                      !.st = ClearForm(@),
                      !.g = [@ EXCEPT !.audioTextSrc = None, !.noteTextSrc = None],
                      !.fr = [@ EXCEPT !.pc = "search_tab",
                                       !.calls = @ \o <<"upsert">>,
                                       !.ret = "True"]]))
           ELSE /\ Commit(s, AddFalse(s, <<"upsert">>, "upsert"))
                /\ UNCHANGED <<points, addLog>>
        /\ UNCHANGED <<cache, collExists, schema, created, initCount>>

\* -------------------------------------------------------- list_notes_from_db
Min(a, b) == IF a <= b THEN a ELSE b

\* An optional score: None, or the store's score.
NoScore == <<>>
Score(v) == <<v>>

RECURSIVE AscendingIds(_)
AscendingIds(ids) ==
    IF ids = {} THEN <<>>
    ELSE LET m == CHOOSE x \in ids : \A y \in ids : x <= y
         IN  <<m>> \o AscendingIds(ids \ {m})

RECURSIVE NearestIds(_, _, _)
NearestIds(ids, pts, qv) ==
    IF ids = {} THEN <<>>
    ELSE LET sim(x) == Similarity(qv, pts[x].vector)
             m == CHOOSE x \in ids : \A y \in ids :
                      sim(x) > sim(y) \/ (sim(x) = sim(y) /\ x <= y)
         IN  <<m>> \o NearestIds(ids \ {m}, pts, qv)

\* qdrant scroll(limit)[0]: the first `limit` records in identifier order.
Scroll(pts, limit) ==
    LET ids == AscendingIds(DOMAIN pts)
    IN  [i \in 1..Min(limit, Len(ids)) |->
            [id |-> ids[i], payload |-> pts[ids[i]].payload]]

\* qdrant search(query_vector, limit): the `limit` nearest records with their
\* scores, nearest first.
Search(pts, qv, limit) ==
    LET ids == NearestIds(DOMAIN pts, pts, qv)
    IN  [i \in 1..Min(limit, Len(ids)) |->
            [id |-> ids[i], payload |-> pts[ids[i]].payload,
             score |-> Similarity(qv, pts[ids[i]].vector)]]

\* Mutant of ScrollResult: the listing carries a score, as the search does.
ScrollResultScored(notes) ==
    [i \in 1..Len(notes) |-> [text |-> notes[i].payload, score |-> Score(0)]]

\* Lines 165-171: the result list of the listing branch.
ScrollResult(notes) ==
    [i \in 1..Len(notes) |-> [text |-> notes[i].payload, score |-> NoScore]]

\* Mutant of SearchResult: the results are returned last first.
SearchResultReversed(notes) ==
    [i \in 1..Len(notes) |->
        [text |-> notes[Len(notes) + 1 - i].payload,
         score |-> Score(notes[Len(notes) + 1 - i].score)]]

\* Lines 178-184: the result list of the search branch.
SearchResult(notes) ==
    [i \in 1..Len(notes) |-> [text |-> notes[i].payload, score |-> Score(notes[i].score)]]

\* list_notes_from_db returns `result` to line 288; the run ends after the
\* results are rendered (lines 290-298).
ListReturn(s, calls, result, why) ==
    [run EXCEPT ![s] = [@ EXCEPT !.pc = "done", !.calls = @ \o calls,
                                 !.ret = "list", !.result = result, !.failed = why]]

\* Lines 158-163.
ListGetClient(s, ok) ==
    /\ Pc(s) = "list_client"
    /\ cache' = get_qdrant_client(cache, ok)
    /\ run' = IF cache' = None
              THEN ListReturn(s, ConnectCalls(cache), <<>>, "client_none")
              ELSE Goto(s, IF ~Truthy(run[s].arg) THEN "list_scroll" ELSE "list_embed",
                        ConnectCalls(cache))
    /\ UNCHANGED <<store, session, widgets, ghost, addLog, initCount>>

\* Lines 164-171 (and 186-188 when the call fails).
ListScroll(s, ok) ==
    /\ Pc(s) = "list_scroll"
    /\ run' = IF ok
              THEN ListReturn(s, <<"scroll">>, ScrollResult(Scroll(points, ScrollLimit)), "none")
              ELSE ListReturn(s, <<"scroll">>, <<>>, "scroll")
    /\ UNCHANGED <<cache, store, session, widgets, ghost, addLog, initCount>>

\* Mutant of ListEmbed: a failed embedding request is made again.
ListEmbedRetrying(s, ok) ==
    /\ Pc(s) = "list_embed"
    /\ run' = IF ok
              THEN Goto(s, "list_search", <<"embed">>)
              ELSE [Goto(s, "list_embed", <<"embed">>) EXCEPT ![s].failed = "embed"]
    /\ UNCHANGED <<cache, store, session, widgets, ghost, addLog, initCount>>

\* Line 175: the embedding of the query, an argument of the search.
ListEmbed(s, ok) ==
    /\ Pc(s) = "list_embed"
    /\ run' = IF ok
              THEN Goto(s, "list_search", <<"embed">>)
              ELSE ListReturn(s, <<"embed">>, <<>>, "embed")
    /\ UNCHANGED <<cache, store, session, widgets, ghost, addLog, initCount>>

\* Lines 173-184 (and 186-188 when the call fails).
ListSearch(s, ok) ==
    /\ Pc(s) = "list_search"
    /\ run' = IF ok
              THEN ListReturn(s, <<"search">>,
                     SearchResult(Search(points, get_embedding(run[s].arg), SearchLimit)),
                     "none")
              ELSE ListReturn(s, <<"search">>, <<>>, "search")
    /\ UNCHANGED <<cache, store, session, widgets, ghost, addLog, initCount>>

\* ------------------------------------------------------------ end of a run
\* The run is over (end of script, st.stop() or an exception): the page shows
\* the widgets this run rendered, and the state of a widget the run did not
\* render is dropped.
Finish(s) ==
    /\ Pc(s) = "done"
    /\ widgets' = [widgets EXCEPT
                     ![s].shown = run[s].rendered,
                     ![s].areaKey = IF "area" \in run[s].rendered THEN @ ELSE None,
                     ![s].areaVal = IF "area" \in run[s].rendered THEN @ ELSE ""]
    /\ ghost' = [ghost EXCEPT
                   ![s].areaSrc = IF "area" \in run[s].rendered THEN @ ELSE None]
    /\ run' = [run EXCEPT ![s] = IdleFrame]
    /\ UNCHANGED <<cache, store, session, addLog, initCount>>

\* ------------------------------------------------------------ specifications
Event(s) ==
    \/ Rerun(s)
    \/ \E a \in Audio : Record(s, a)
    \/ ClickTranscribe(s)
    \/ \E t \in Texts \cup {""} : EditText(s, t)
    \/ ClickSave(s)
    \/ \E q \in Queries : ClickSearch(s, q)
    \/ ClearCache(s)

ScriptStep(s) ==
    \/ \E ok \in BOOLEAN : AssureGetClient(s, ok)
    \/ \E ok \in BOOLEAN : AssureExists(s, ok)
    \/ \E ok \in BOOLEAN : AssureCreate(s, ok)
    \/ Capture(s)
    \/ \E ok \in BOOLEAN, t \in Texts \cup {""} : Transcribe(s, ok, t)
    \/ \E ok \in BOOLEAN : AddGetClient(s, ok)
    \/ \E ok \in BOOLEAN : AddCount(s, ok)
    \/ \E ok \in BOOLEAN : AddEmbed(s, ok)
    \/ \E ok \in BOOLEAN : AddUpsert(s, ok)
    \/ \E ok \in BOOLEAN : ListGetClient(s, ok)
    \/ \E ok \in BOOLEAN : ListScroll(s, ok)
    \/ \E ok \in BOOLEAN : ListEmbed(s, ok)
    \/ \E ok \in BOOLEAN : ListSearch(s, ok)
    \/ Finish(s)

\* One session: the single writer the application assumes.
Next == Event("s1") \/ ScriptStep("s1")

Spec == Init /\ [][Next]_vars

\* Two sessions writing concurrently.  Each writer records one recording of
\* its own, transcribes it to a text of its own and saves it.  The connection
\* cache can be cleared at any time, and the connection attempt that
\* add_note_to_db then makes can fail.
WriterAudio(s) == IF s = "s1" THEN "A" ELSE "B"
WriterText(s)  == IF s = "s1" THEN "a" ELSE "b"

WriterEvent(s) ==
    \/ Rerun(s)
    \/ Record(s, WriterAudio(s))
    \/ ClickTranscribe(s)
    \/ ClickSave(s)
    \/ ClearCache(s)

WriterStep(s) ==
    \/ AssureGetClient(s, TRUE)
    \/ AssureExists(s, TRUE)
    \/ AssureCreate(s, TRUE)
    \/ Capture(s)
    \/ Transcribe(s, TRUE, WriterText(s))
    \/ \E ok \in BOOLEAN : AddGetClient(s, ok)
    \/ AddCount(s, TRUE)
    \/ AddEmbed(s, TRUE)
    \/ AddUpsert(s, TRUE)
    \/ Finish(s)

InitRace == Init /\ initCount = 0

NextRace == \E s \in Sessions : WriterEvent(s) \/ WriterStep(s)

SpecRace == InitRace /\ [][NextRace]_vars

\* One writer with a single recording, and a second session that shares the
\* connection cache and whose user only clears the cache.  Every remote call
\* of add_note_to_db and list_notes_from_db can fail, and so can the second
\* session's connection attempt.
WriterSearchEvent(s) ==
    \/ Rerun(s)
    \/ Record(s, WriterAudio(s))
    \/ ClickTranscribe(s)
    \/ ClickSave(s)
    \/ \E q \in Queries : ClickSearch(s, q)

WriterSearchStep(s) ==
    \/ AssureGetClient(s, TRUE)
    \/ AssureExists(s, TRUE)
    \/ Capture(s)
    \/ Transcribe(s, TRUE, WriterText(s))
    \/ \E ok \in BOOLEAN : AddGetClient(s, ok)
    \/ \E ok \in BOOLEAN : AddCount(s, ok)
    \/ \E ok \in BOOLEAN : AddEmbed(s, ok)
    \/ \E ok \in BOOLEAN : AddUpsert(s, ok)
    \/ \E ok \in BOOLEAN : ListGetClient(s, ok)
    \/ \E ok \in BOOLEAN : ListScroll(s, ok)
    \/ \E ok \in BOOLEAN : ListEmbed(s, ok)
    \/ \E ok \in BOOLEAN : ListSearch(s, ok)
    \/ Finish(s)

CacheClearerStep(s) ==
    \/ ClearCache(s)
    \/ \E ok \in BOOLEAN : AssureGetClient(s, ok)
    \/ AssureExists(s, TRUE)
    \/ Capture(s)
    \/ Finish(s)

InitShared == Init /\ initCount <= 1 /\ collExists

NextShared ==
    \/ WriterSearchEvent("s1")
    \/ WriterSearchStep("s1")
    \/ CacheClearerStep("s2")

SpecShared == InitShared /\ [][NextShared]_vars

\* ==================================================================== claims
Count == Cardinality(DOMAIN points)

Range(seq) == {seq[i] : i \in 1..Len(seq)}

\* C1: with a single writer, every add_note_to_db call that returns True
\* leaves the exact point count one greater than the count it read and one
\* greater than the count before the upsert.
C1_AddNoteCountPlusOne ==
    [][\A s \in Sessions :
         (run[s].op = "add" /\ run[s].ret # "True" /\ run'[s].ret = "True")
         => /\ Cardinality(DOMAIN points') = Count + 1
            /\ Cardinality(DOMAIN points') = run[s].points_count + 1]_vars

\* A second successful call on a collection that was populated before.
C1_Witness ==
    \E s \in Sessions :
        /\ run[s].ret = "True"
        /\ initCount > 0
        /\ Len(addLog) = 2
        /\ Count = initCount + 2

\* C2: with a single writer, the successful add_note_to_db calls store their
\* notes under consecutive identifiers, each the point count at the call plus
\* one, and every note stored so far is still present with its own text.
C2_SequentialIds ==
    \A i \in 1..Len(addLog) :
        /\ addLog[i].id = initCount + i
        /\ i > 1 => addLog[i].id = addLog[i-1].id + 1
        /\ addLog[i].id \in DOMAIN points
        /\ points[addLog[i].id].payload = addLog[i].text

\* Two successful calls with different texts.
C2_Witness ==
    /\ Len(addLog) = 2
    /\ addLog[1].text # addLog[2].text
    /\ points[addLog[1].id].payload = addLog[1].text
    /\ points[addLog[2].id].payload = addLog[2].text

\* C3: when two successful add_note_to_db calls of two concurrent writers
\* used the same identifier (both read the same count before either upsert),
\* the collection holds one point under it, with the text of the later
\* upsert, and the count has grown by less than the number of successful
\* calls.
C3_RacingWritersOverwrite ==
    \A i, j \in 1..Len(addLog) :
        (i < j /\ addLog[i].id = addLog[j].id)
        => /\ addLog[i].by # addLog[j].by
           /\ addLog[i].id \in DOMAIN points
           /\ \A k \in j..Len(addLog) :
                (addLog[k].id = addLog[i].id /\
                 \A l \in (k+1)..Len(addLog) : addLog[l].id # addLog[i].id)
                => points[addLog[i].id].payload = addLog[k].text
           /\ Count < initCount + Len(addLog)

\* Both writers returned True for different texts, one point was added and
\* the first writer's note is gone.
C3_Witness ==
    /\ Len(addLog) = 2
    /\ addLog[1].id = addLog[2].id
    /\ addLog[1].by # addLog[2].by
    /\ addLog[1].text # addLog[2].text
    /\ Count = initCount + 1
    /\ \A i \in DOMAIN points : points[i].payload # addLog[1].text
    /\ \A s \in Sessions : Pc(s) = "idle"

\* C4: assure_db_collection_exists on an existing collection mutates
\* nothing: it issues no create_collection call and leaves the schema ("notes",
\* 3072, cosine) and the points as they are; so does every invocation after
\* the first.
C4_AssureIdempotent ==
    /\ [](collExists => schema = NotesSchema)
    /\ [][\A s \in Sessions :
            (Pc(s) \in {"boot", "exists", "create"} /\ collExists)
            => /\ collExists' /\ schema' = schema /\ points' = points
               /\ created' = created
               /\ "create_collection" \notin Range(run'[s].calls)]_vars

\* A run after the run that created the collection has passed the bootstrap
\* without a create_collection call.
C4_Witness ==
    \E s \in Sessions :
        /\ created = 1
        /\ run[s].booted
        /\ "collection_exists" \in Range(run[s].calls)
        /\ "create_collection" \notin Range(run[s].calls)

\* C5: the capture block of a run with a recording keeps note_audio_text,
\* note_text and the stored digest when the recording's digest equals the
\* stored one, and otherwise (a stored None included) empties both texts and
\* stores the recording's digest.
C5_CaptureResetsOnNewAudio ==
    [][\A s \in Sessions :
         (Pc(s) = "capture" /\ run'[s].pc # "capture" /\ Truthy(widgets[s].recorder))
         => LET old == session[s]
                new == session'[s]
                current_md5 == MD5(widgets[s].recorder)
            IN  /\ new.note_audio_bytes = widgets[s].recorder
                /\ old.note_audio_bytes_md5 = current_md5
                   => /\ new.note_audio_text = old.note_audio_text
                      /\ new.note_text = old.note_text
                      /\ new.note_audio_bytes_md5 = old.note_audio_bytes_md5
                /\ old.note_audio_bytes_md5 # current_md5
                   => /\ new.note_audio_text = ""
                      /\ new.note_text = ""
                      /\ new.note_audio_bytes_md5 = current_md5]_vars

\* A new recording has just emptied texts that were not empty.
C5_Witness ==
    \E s \in Sessions :
        /\ Pc(s) = "transcribe"
        /\ run[s].capt = "reset"
        /\ run[s].hadText
        /\ session[s].note_text = ""
        /\ session[s].note_audio_bytes_md5 = MD5(widgets[s].recorder)

\* C6: while note_audio_text or note_text is non-empty, the stored digest is
\* the digest of the held audio bytes and the text comes from a transcription
\* of exactly those bytes; the text handed to add_note_to_db comes from the
\* recording the recorder holds.
C6_TextMatchesAudio ==
    \A s \in Sessions :
        LET st == session[s]
        IN  /\ (Truthy(st.note_audio_text) \/ Truthy(st.note_text))
               => st.note_audio_bytes_md5 = MD5(st.note_audio_bytes)
            /\ Truthy(st.note_audio_text) => ghost[s].audioTextSrc = st.note_audio_bytes
            /\ Truthy(st.note_text) => ghost[s].noteTextSrc = st.note_audio_bytes
            /\ Pc(s) = "add_client"
               => /\ run[s].arg = st.note_text
                  /\ ghost[s].noteTextSrc = widgets[s].recorder

\* The text of a second recording is being saved after the first was saved.
C6_Witness ==
    \E s \in Sessions :
        /\ Pc(s) = "add_client"
        /\ Len(addLog) = 1
        /\ session[s].note_audio_bytes = "B"
        /\ ghost[s].noteTextSrc = "B"

\* C7: list_notes_from_db without a query returns at most 10 results, each
\* with the text of a stored note and score None, after a scroll and without
\* an embedding or search call.
C7_ListWithoutQuery ==
    \A s \in Sessions :
        (Pc(s) = "done" /\ run[s].op = "list" /\ ~Truthy(run[s].arg))
        => /\ Len(run[s].result) <= ScrollLimit
           /\ Len(run[s].result) <= Count
           /\ \A i \in 1..Len(run[s].result) :
                /\ run[s].result[i].score = NoScore
                /\ \E id \in DOMAIN points : points[id].payload = run[s].result[i].text
           /\ run[s].failed = "none"
              => /\ Len(run[s].result) = Min(ScrollLimit, Count)
                 /\ "scroll" \in Range(run[s].calls)
           /\ "embed" \notin Range(run[s].calls)
           /\ "search" \notin Range(run[s].calls)

\* A listing of a collection of more than 10 notes returned 10.
C7_Witness ==
    \E s \in Sessions :
        /\ Pc(s) = "done" /\ run[s].op = "list" /\ ~Truthy(run[s].arg)
        /\ Count > ScrollLimit
        /\ Len(run[s].result) = ScrollLimit

\* C8: list_notes_from_db with a query embeds the query, then searches, and
\* returns at most 10 results in the store's order, each with the text of a
\* stored note and the store's score for it, the scores non-increasing.
C8_SearchOrdered ==
    \A s \in Sessions :
        (Pc(s) = "done" /\ run[s].op = "list" /\ Truthy(run[s].arg))
        => LET res == run[s].result
               qv  == get_embedding(run[s].arg)
           IN  /\ Len(res) <= SearchLimit
               /\ \A i \in 1..Len(res) :
                    /\ res[i].score # NoScore
                    /\ res[i].score = Score(Similarity(qv, get_embedding(res[i].text)))
                    /\ \E id \in DOMAIN points : points[id].payload = res[i].text
               /\ \A i, j \in 1..Len(res) :
                    i < j => res[i].score[1] >= res[j].score[1]
               /\ run[s].failed = "none"
                  => /\ Len(res) = Min(SearchLimit, Count)
                     /\ \E k \in 1..(Len(run[s].calls) - 1) :
                          /\ run[s].calls[k] = "embed"
                          /\ run[s].calls[k+1] = "search"
               /\ "scroll" \notin Range(run[s].calls)

\* A search of more than 10 notes returned 10 results with different scores.
C8_Witness ==
    \E s \in Sessions :
        /\ Pc(s) = "done" /\ run[s].op = "list" /\ Truthy(run[s].arg)
        /\ Count > SearchLimit
        /\ Len(run[s].result) = SearchLimit
        /\ run[s].result[1].score[1] > run[s].result[SearchLimit].score[1]

\* C9: when a remote call of add_note_to_db or list_notes_from_db fails, or
\* the cached client is None, no exception leaves the function:
\* add_note_to_db returns False, list_notes_from_db returns an empty list, and
\* the script run goes on.
RepositoryFailures == {"client_none", "count", "embed", "upsert", "scroll", "search"}

C9_RepositoryNeverRaises ==
    \A s \in Sessions :
        /\ run[s].op # "none" /\ run[s].failed # "none"
           => /\ run[s].failed \in RepositoryFailures
              /\ ~run[s].raised
              /\ ~run[s].halted
              /\ Pc(s) = "done"
              /\ "search" \in run[s].rendered
        /\ run[s].op = "add" /\ run[s].failed # "none"
           => /\ run[s].ret = "False"
              /\ "upsert" \in Range(run[s].calls) => run[s].failed = "upsert"
        /\ run[s].op = "list" /\ run[s].failed # "none"
           => /\ run[s].ret = "list"
              /\ run[s].result = <<>>
        /\ run[s].raised => run[s].op = "none"

\* add_note_to_db found the cached client to be None and returned False.
C9_Witness ==
    \E s \in Sessions :
        /\ run[s].op = "add"
        /\ run[s].failed = "client_none"
        /\ run[s].ret = "False"
        /\ "get_collections" \notin Range(run[s].calls)

\* C10: a run whose bootstrap fails (no client, or a failing
\* collection_exists or create_collection call) ends inside
\* assure_db_collection_exists: it calls neither add_note_to_db nor
\* list_notes_from_db, renders nothing below and issues no count, upsert,
\* scroll, search, embedding or transcription call; the script is past the
\* bootstrap only in a run whose bootstrap found or created the collection.
BootFailures == {"connect", "collection_exists", "create_collection"}
BootCalls == {"get_collections", "collection_exists", "create_collection"}

C10_BootstrapFailureHalts ==
    \A s \in Sessions :
        /\ run[s].failed \in BootFailures
           => /\ run[s].halted
              /\ Pc(s) = "done"
              /\ run[s].op = "none"
              /\ run[s].rendered = {}
              /\ Range(run[s].calls) \subseteq BootCalls
        /\ (cache = None /\ Pc(s) \notin {"idle", "boot"}) => run[s].halted
        /\ (run[s].op # "none" \/ Range(run[s].calls) \ BootCalls # {}
              \/ Pc(s) \in {"capture", "transcribe"})
           => /\ run[s].booted
              /\ ~run[s].halted
              /\ collExists

\* The run started by a click on the save button ended in the bootstrap.
C10_Witness ==
    \E s \in Sessions :
        /\ run[s].ev = "save"
        /\ run[s].halted
        /\ run[s].failed = "collection_exists"

\* C11: when add_note_to_db returns True, the save block leaves the stored
\* digest None and note_audio_text and note_text empty, the values of the
\* session state initialization.
C11_SaveClearsDraft ==
    \A s \in Sessions :
        run[s].ret = "True"
        => /\ session[s].note_audio_bytes_md5 = InitSession.note_audio_bytes_md5
           /\ session[s].note_audio_text = InitSession.note_audio_text
           /\ session[s].note_text = InitSession.note_text

\* An edited text has been saved and the form is empty.
C11_Witness ==
    \E s \in Sessions :
        /\ Pc(s) = "done"
        /\ run[s].ret = "True"
        /\ Truthy(run[s].arg)
        /\ session[s].note_audio_bytes # None
        /\ session[s].note_audio_bytes_md5 = None
        /\ session[s].note_text = ""

\* C12: add_note_to_db issues count, then the embedding, then the upsert;
\* when the embedding fails no upsert is issued, the points and the count are
\* as they were and add_note_to_db returns False.
AddCallOrder == <<"count", "embed", "upsert">>

RECURSIVE Without(_, _)
Without(seq, drop) ==
    IF seq = <<>> THEN <<>>
    ELSE IF Head(seq) \in drop THEN Without(Tail(seq), drop)
         ELSE <<Head(seq)>> \o Without(Tail(seq), drop)

C12_EmbeddingFailureAborts ==
    /\ [](\A s \in Sessions :
            LET calls == Without(run[s].calls,
                                 {"get_collections", "collection_exists",
                                  "create_collection", "transcribe"})
            IN  /\ run[s].op = "add"
                   => /\ Len(calls) <= 3
                      /\ calls = SubSeq(AddCallOrder, 1, Len(calls))
                /\ (run[s].op = "add" /\ run[s].failed = "embed")
                   => /\ run[s].ret = "False"
                      /\ calls = <<"count", "embed">>
                      /\ Count = run[s].points_count)
    /\ [][\A s \in Sessions :
            (run[s].op = "add" /\ run[s].failed = "none" /\ run'[s].failed = "embed")
            => /\ points' = points
               /\ addLog' = addLog
               /\ session' = session]_vars

\* The embedding of a note failed after the count had been read.
C12_Witness ==
    \E s \in Sessions :
        /\ run[s].op = "add"
        /\ run[s].failed = "embed"
        /\ run[s].ret = "False"
        /\ run[s].points_count = Count
        /\ Count > 0

\* C13: a failed connection attempt is kept: while the cached value is None
\* no run attempts a connection and every run halts in the bootstrap; only the
\* clear-cache button removes the None, and the first get_qdrant_client call
\* after it attempts a connection.
C13_ConnectionFailureSticky ==
    /\ [](cache = None => \A s \in Sessions : Pc(s) \notin {"idle", "boot"}
                                               => run[s].halted)
    /\ [][/\ (cache # None /\ cache' = None)
             => \E s \in Sessions :
                    run'[s].calls = run[s].calls \o <<"get_collections">>
          /\ cache = None
             => \/ cache' = None
                \/ /\ cache' = "unset"
                   /\ \E s \in Sessions : Pc(s) = "idle" /\ run'[s].pc = "boot"
          /\ \A s \in Sessions :
               /\ (cache = None /\ Pc(s) = "boot" /\ run'[s].pc # "boot")
                  => /\ run'[s].halted
                     /\ run'[s].failed = "connect"
                     /\ run'[s].calls = <<>>
               /\ (cache = "unset" /\ Pc(s) = "boot" /\ run'[s].pc # "boot")
                  => /\ run'[s].calls = <<"get_collections">>
                     /\ cache' # "unset"]_vars

\* A run has halted on the cached None without a connection attempt.
C13_Witness ==
    \E s \in Sessions :
        /\ cache = None
        /\ run[s].halted
        /\ run[s].failed = "connect"
        /\ run[s].calls = <<>>

\* C14: with one session the collection is created at most once, and a count,
\* upsert, scroll or search is issued only in a run whose bootstrap has found
\* or created the collection, after that run's collection_exists call and
\* after any connection the run has constructed.
StoreOps == {"count", "upsert", "scroll", "search"}

C14_BootstrapBeforeStoreOps ==
    /\ created <= 1
    /\ created = 1 => collExists
    /\ \A s \in Sessions : \A k \in 1..Len(run[s].calls) :
         run[s].calls[k] \in StoreOps
         => /\ run[s].booted
            /\ collExists
            /\ \E j \in 1..(k-1) : run[s].calls[j] = "collection_exists"
            /\ \A i \in 1..(k-1) :
                 run[s].calls[i] = "get_collections"
                 => \E j \in (i+1)..(k-1) : run[s].calls[j] = "collection_exists"

\* After a save, the cache was cleared and the run that reconnected has
\* passed the bootstrap of the collection created once.
C14_Witness ==
    \E s \in Sessions :
        /\ created = 1
        /\ Len(addLog) >= 1
        /\ widgets[s].shown # {}
        /\ "get_collections" \in Range(run[s].calls)
        /\ "collection_exists" \in Range(run[s].calls)
        /\ run[s].booted

\* C15: the script makes no second provider call: a run issues at most one
\* embedding call and at most one transcription call, a failed one is the
\* last call of its run, and the operation it belongs to ends there
\* (add_note_to_db with False, list_notes_from_db with the empty list, the
\* transcribe step with the exception).
Occurrences(seq, x) == Cardinality({k \in 1..Len(seq) : seq[k] = x})

ProviderCalls == {"embed", "transcribe"}

C16_TranscriptionFailureAborts ==
    /\ [](\A s \in Sessions :
            run[s].failed = "transcribe"
            => /\ run[s].raised
               /\ Pc(s) = "done"
               /\ run[s].op = "none"
               /\ run[s].ret = None
               /\ run[s].rendered \cap {"area", "save", "search"} = {}
               /\ Range(run[s].calls) \cap {"count", "embed", "upsert"} = {})
    /\ [][\A s \in Sessions :
            (run[s].failed # "transcribe" /\ run'[s].failed = "transcribe")
            => /\ session' = session
               /\ points' = points
               /\ addLog' = addLog]_vars

\* A transcription failed while the draft held a transcript and an edited
\* text from an earlier transcription.
C16_Witness ==
    \E s \in Sessions :
        /\ run[s].failed = "transcribe"
        /\ Truthy(session[s].note_audio_text)
        /\ Truthy(session[s].note_text)
        /\ session[s].note_text # session[s].note_audio_text

\* C17: from an empty collection, whatever the interleaving of the two
\* writers, the stored identifiers are exactly 1..count: a race may overwrite
\* a note, it leaves no gap and no identifier above the count.
C17_IdsContiguous == DOMAIN points = 1..Count

\* The writers raced: more upserts succeeded than points are stored, and the
\* identifiers in use go up to 2.
C17_Witness ==
    /\ Len(addLog) > Count
    /\ Count >= 2
    /\ \E i, j \in 1..Len(addLog) :
         i < j /\ addLog[i].id = addLog[j].id /\ addLog[i].by # addLog[j].by

\* C18: add_note_to_db is called only with a non-empty edited text, so every
\* note upserted by the add tab has a non-empty text.
C18_SavedTextNonEmpty ==
    /\ \A i \in 1..Len(addLog) :
         /\ Truthy(addLog[i].text)
         /\ addLog[i].id \in DOMAIN points
         /\ Truthy(points[addLog[i].id].payload)
    /\ \A s \in Sessions :
         /\ run[s].op = "add" => Truthy(run[s].arg)
         /\ ("save" \in run[s].rendered /\ run[s].ret # "True")
            => Truthy(session[s].note_text)

\* After a note was saved, a run rendered the text area with an emptied text
\* and no save button.
C18_Witness ==
    \E s \in Sessions :
        /\ Len(addLog) >= 1
        /\ Pc(s) = "done"
        /\ "area" \in run[s].rendered
        /\ session[s].note_text = ""
        /\ "save" \notin run[s].rendered

\* C19: when add_note_to_db returns False the save block changes nothing: the
\* draft's digest, transcript and edited text are as before the call, the run
\* ends with the save button rendered for the same text, and a save event
\* that follows calls add_note_to_db with the text the draft holds.
C19_FailedSaveKeepsDraft ==
    /\ [](\A s \in Sessions :
            /\ run[s].ret = "False"
               => /\ Pc(s) = "done"
                  /\ run[s].op = "add"
                  /\ "save" \in run[s].rendered
                  /\ session[s].note_text = run[s].arg
            /\ (run[s].op = "add" /\ run[s].ret = None)
               => session[s].note_text = run[s].arg)
    /\ [][\A s \in Sessions :
            /\ (run[s].ret # "False" /\ run'[s].ret = "False")
               => session' = session
            /\ (run[s].ret = "False" /\ run'[s] = IdleFrame)
               => /\ session' = session
                  /\ "save" \in widgets'[s].shown
                  /\ "area" \in widgets'[s].shown
                     => /\ widgets'[s].areaKey = session[s].note_audio_text
                        /\ widgets'[s].areaVal = session[s].note_text]_vars

\* A save of an edited text failed and the draft still holds the recording's
\* digest, the transcript and the edited text.
C19_Witness ==
    \E s \in Sessions :
        /\ Pc(s) = "done"
        /\ run[s].ret = "False"
        /\ session[s].note_audio_bytes_md5 = MD5(session[s].note_audio_bytes)
        /\ Truthy(session[s].note_audio_text)
        /\ session[s].note_text = run[s].arg
        /\ session[s].note_text # session[s].note_audio_text

====
